------------------------------ MODULE Spec2Model ------------------------------
(***************************************************************************)
(* The self-correcting verification loop of src/src/main.py: the response  *)
(* parser parse_code_proof and the retry loop of main_workflow.            *)
(*                                                                         *)
(* A text is a sequence of characters, each a one-character string.  The   *)
(* two bullet glyphs of line 30 are written "MIDDOT" (U+00B7) and "BULLET" *)
(* (U+2022), the backquote of a code fence "BACKTICK": each stands for one *)
(* character.                                                              *)
(***************************************************************************)
EXTENDS Integers, Sequences, FiniteSets, TLC

VARIABLES
    task_lean_code,                     \* the template argument of main_workflow
    messages,                           \* the conversation (lines 153-156, 183-197)
    retries,                            \* line 56
    response,                           \* line 161
    generated_function_implementation,  \* lines 53, 166
    generated_proof,                    \* lines 54, 166
    temp_lean_code,                     \* lines 171-172
    verification_result,                \* line 175
    pc,                                 \* the position in main_workflow
    returned,                           \* the dictionary of lines 204-207, None before the return
    model_calls,                        \* calls of agent.get_response so far
    verifier_calls,                     \* calls of execute_lean_code so far
    sent,                               \* the argument of the last agent.get_response call
    verified,                           \* the argument of the last execute_lean_code call
    prev                                \* what an earlier execution returned (RunsSpec)

workflow_vars ==
    <<task_lean_code, messages, retries, response, generated_function_implementation,
      generated_proof, temp_lean_code, verification_result, pc, returned,
      model_calls, verifier_calls, sent, verified>>

vars == <<workflow_vars, prev>>

\* Python's None, and a value that is not None: a sequence of no or one element.
None == <<>>

Some(x) == <<x>>

-----------------------------------------------------------------------------
(* Characters and the str operations the program uses.                     *)

Min(S) == CHOOSE m \in S : \A n \in S : m <= n

Max(S) == CHOOSE m \in S : \A n \in S : m >= n

UpperCase ==
    <<"A", "B", "C", "D", "E", "F", "G", "H", "I", "J", "K", "L", "M",
      "N", "O", "P", "Q", "R", "S", "T", "U", "V", "W", "X", "Y", "Z">>

LowerCase ==
    <<"a", "b", "c", "d", "e", "f", "g", "h", "i", "j", "k", "l", "m",
      "n", "o", "p", "q", "r", "s", "t", "u", "v", "w", "x", "y", "z">>

Digits == {"0", "1", "2", "3", "4", "5", "6", "7", "8", "9"}

\* re's \s on the characters of the model.
IsSpace(c) == c \in {" ", "\t", "\n", "\r"}

\* re's \w.
IsWord(c) ==
    \/ \E k \in DOMAIN UpperCase : c = UpperCase[k] \/ c = LowerCase[k]
    \/ c \in Digits
    \/ c = "_"

\* The case folding of re.IGNORECASE.
Lower(c) ==
    IF \E k \in DOMAIN UpperCase : c = UpperCase[k]
    THEN LowerCase[CHOOSE k \in DOMAIN UpperCase : c = UpperCase[k]]
    ELSE c

\* The literal lit stands in t at index i.
At(t, i, lit) ==
    /\ i >= 1
    /\ i + Len(lit) - 1 <= Len(t)
    /\ \A k \in 1..Len(lit) : t[i + k - 1] = lit[k]

\* The same under re.IGNORECASE.
AtIgnoreCase(t, i, lit) ==
    /\ i >= 1
    /\ i + Len(lit) - 1 <= Len(t)
    /\ \A k \in 1..Len(lit) : Lower(t[i + k - 1]) = Lower(lit[k])

\* Python's `lit in t`.
Contains(t, lit) == \E i \in 1..(Len(t) - Len(lit) + 1) : At(t, i, lit)

\* Where a greedy \s* that starts at i ends: the first index from i on that holds
\* no whitespace, Len(t) + 1 when there is none.
SkipSpace(t, i) ==
    LET S == {j \in i..Len(t) : ~IsSpace(t[j])}
    IN  IF S = {} THEN Len(t) + 1 ELSE Min(S)

\* Where a greedy \w* that starts at i ends.
SkipWord(t, i) ==
    LET S == {j \in i..Len(t) : ~IsWord(t[j])}
    IN  IF S = {} THEN Len(t) + 1 ELSE Min(S)

\* Where a greedy .* (without re.DOTALL) that starts at i ends: the next newline.
LineEnd(t, i) ==
    LET S == {j \in i..Len(t) : t[j] = "\n"}
    IN  IF S = {} THEN Len(t) + 1 ELSE Min(S)

\* Where ^ matches under re.MULTILINE.
LineStart(t, i) == i = 1 \/ (i >= 2 /\ i <= Len(t) + 1 /\ t[i - 1] = "\n")

\* Where $ matches without re.MULTILINE: at the end, and before a last newline.
EndOfText(t, i) == i = Len(t) + 1 \/ (i = Len(t) /\ t[i] = "\n")

\* The span taken without .strip().
strip_Keep(t) == t

\* str.strip().
strip(t) ==
    LET S == {j \in 1..Len(t) : ~IsSpace(t[j])}
    IN  IF S = {} THEN <<>> ELSE SubSeq(t, Min(S), Max(S))

RECURSIVE ReplaceFrom(_, _, _, _)
ReplaceFrom(t, i, old, new) ==
    LET S == {j \in i..Len(t) : At(t, j, old)}
    IN  IF S = {} THEN SubSeq(t, i, Len(t))
        ELSE SubSeq(t, i, Min(S) - 1) \o new \o ReplaceFrom(t, Min(S) + Len(old), old, new)

\* The replacement of the first occurrence only, str.replace(old, new, 1).
Replace_First(t, old, new) ==
    LET S == {j \in 1..Len(t) : At(t, j, old)}
    IN  IF S = {} THEN t
        ELSE SubSeq(t, 1, Min(S) - 1) \o new \o SubSeq(t, Min(S) + Len(old), Len(t))

\* str.replace(old, new) for a non-empty old: every occurrence, left to right.
Replace(t, old, new) == ReplaceFrom(t, 1, old, new)

-----------------------------------------------------------------------------
(* parse_code_proof, lines 10-39.                                          *)

CODE_MARKER == <<"C", "O", "D", "E", ":">>

PROOF_MARKER == <<"P", "R", "O", "O", "F", ":">>

FENCE == <<"BACKTICK", "BACKTICK", "BACKTICK">>

LEAN == <<"l", "e", "a", "n">>

DEF_KEYWORD == <<"d", "e", "f">>

ASSIGN == <<":", "=">>

CANONICAL_BULLET == <<"MIDDOT", " ">>

SORRY == <<"s", "o", "r", "r", "y">>

\* The code pattern with a greedy group, r"CODE:(.*)(?:PROOF:|$)": the group runs
\* to the end of the text.
code_match_Greedy(text) ==
    LET S == {i \in 1..Len(text) : AtIgnoreCase(text, i, CODE_MARKER)}
    IN  IF S = {} THEN None
        ELSE Some(SubSeq(text, Min(S) + Len(CODE_MARKER), Len(text)))

\* re.search(r"CODE:(.*?)(?:PROOF:|$)", response, re.DOTALL | re.IGNORECASE):
\* group(1) of the match, None when there is none.
code_match(text) ==
    LET S == {i \in 1..Len(text) : AtIgnoreCase(text, i, CODE_MARKER)}
    IN  IF S = {} THEN None
        ELSE LET g == Min(S) + Len(CODE_MARKER)
                 e == Min({k \in g..(Len(text) + 1) :
                              AtIgnoreCase(text, k, PROOF_MARKER) \/ EndOfText(text, k)})
             IN  Some(SubSeq(text, g, e - 1))

\* re.search(r"PROOF:(.*)", response, re.DOTALL | re.IGNORECASE): group(1), or None.
proof_match(text) ==
    LET S == {i \in 1..Len(text) : AtIgnoreCase(text, i, PROOF_MARKER)}
    IN  IF S = {} THEN None
        ELSE Some(SubSeq(text, Min(S) + Len(PROOF_MARKER), Len(text)))

\* r"```(?:lean)?\s*" at i: the index after the match, 0 when it does not match.
OpenFenceEnd(t, i) ==
    IF ~At(t, i, FENCE) THEN 0
    ELSE LET j == i + Len(FENCE)
         IN  SkipSpace(t, IF At(t, j, LEAN) THEN j + Len(LEAN) ELSE j)

\* r"\s*```" at i.
CloseFenceEnd(t, i) ==
    LET j == SkipSpace(t, i)
    IN  IF At(t, j, FENCE) THEN j + Len(FENCE) ELSE 0

\* r"^def\s+\w+\s*\(.*\)\s*:.*:=\s*" at i under re.MULTILINE.  Every greedy run
\* but the two .* is forced; the first .* ends at the last ")" of its line after
\* which the rest matches, the second at the last ":=" of its line.
DefHeaderEnd(t, i) ==
    IF ~(LineStart(t, i) /\ At(t, i, DEF_KEYWORD)) THEN 0
    ELSE LET a == i + Len(DEF_KEYWORD)
             b == SkipSpace(t, a)
             c == SkipWord(t, b)
             d == SkipSpace(t, c)
             Rest(q) ==
                 LET r == SkipSpace(t, q + 1)
                     A == {s \in (r + 1)..(LineEnd(t, r + 1) - 2) : At(t, s, ASSIGN)}
                 IN  IF r <= Len(t) /\ t[r] = ":" /\ A # {}
                     THEN SkipSpace(t, Max(A) + Len(ASSIGN))
                     ELSE 0
             Q == {q \in (d + 1)..(LineEnd(t, d + 1) - 1) : t[q] = ")" /\ Rest(q) # 0}
         IN  IF b > a /\ c > b /\ d <= Len(t) /\ t[d] = "(" /\ Q # {}
             THEN Rest(Max(Q))
             ELSE 0

\* r"^\s*[glyphs]\s*" at i under re.MULTILINE.
BulletEnd(t, i, glyphs) ==
    LET j == SkipSpace(t, i)
    IN  IF LineStart(t, i) /\ j <= Len(t) /\ t[j] \in glyphs
        THEN SkipSpace(t, j + 1)
        ELSE 0

MatchEnd(pattern, t, i) ==
    CASE pattern = "open_fence"  -> OpenFenceEnd(t, i)
      [] pattern = "close_fence" -> CloseFenceEnd(t, i)
      [] pattern = "def_header"  -> DefHeaderEnd(t, i)
      [] pattern = "bullet"      -> BulletEnd(t, i, {"MIDDOT", "BULLET"})
      [] pattern = "dot"         -> BulletEnd(t, i, {"."})

RECURSIVE SubFrom(_, _, _, _)
SubFrom(pattern, repl, t, i) ==
    LET S == {j \in i..Len(t) : MatchEnd(pattern, t, j) # 0}
    IN  IF S = {} THEN SubSeq(t, i, Len(t))
        ELSE SubSeq(t, i, Min(S) - 1) \o repl \o SubFrom(pattern, repl, t, MatchEnd(pattern, t, Min(S)))

\* re.sub(pattern, repl, t): the matches, none of them empty, replaced left to right,
\* each search starting where the match before it ended.
re_sub(pattern, repl, t) == SubFrom(pattern, repl, t, 1)

\* The fallback left out: an empty span stays empty.
OrSorry_Keep(span) == span

\* Lines 34-37.
OrSorry(span) == IF span = <<>> THEN SORRY ELSE span

parse_code_proof(text) ==
    LET cm     == code_match(text)
        pm     == proof_match(text)
        code0  == IF cm # None THEN strip(cm[1]) ELSE <<>>
        proof0 == IF pm # None THEN strip(pm[1]) ELSE <<>>
        code1  == re_sub("close_fence", <<>>, re_sub("open_fence", <<>>, code0))
        proof1 == re_sub("close_fence", <<>>, re_sub("open_fence", <<>>, proof0))
        code2  == re_sub("def_header", <<>>, code1)
        proof2 == re_sub("dot", CANONICAL_BULLET,
                         re_sub("bullet", CANONICAL_BULLET, proof1))
    IN  <<OrSorry(code2), OrSorry(proof2)>>

-----------------------------------------------------------------------------
(* main_workflow, lines 41-207: the fixed texts.                           *)

max_retries == 3

\* The placeholders of lines 171-172.
CODE_SLOT == <<"{", "{", "c", "o", "d", "e", "}", "}">>

PROOF_SLOT == <<"{", "{", "p", "r", "o", "o", "f", "}", "}">>

\* The literal tested at line 178.
SUCCESS_MARKER ==
    <<"L", "e", "a", "n", " ", "c", "o", "d", "e", " ", "e", "x",
      "e", "c", "u", "t", "e", "d", " ", "s", "u", "c", "c", "e",
      "s", "s", "f", "u", "l", "l", "y", ".">>

\* The system prompt of lines 72-95: its first line.  No operation reads the
\* prompt, and the rest of the literal is left out.
SYSTEM_PROMPT ==
    <<"Y", "o", "u", " ", "a", "r", "e", " ", "a", "n", " ", "e",
      "x", "p", "e", "r", "t", " ", "L", "e", "a", "n", " ", "4",
      " ", "p", "r", "o", "g", "r", "a", "m", "m", "e", "r", ".",
      "\n">>

\* The user prompt of lines 124-151 up to the template; the rest of the f-string
\* (the function's name, the specification, the examples) is left out: no
\* operation reads the prompt.
USER_PROMPT_HEAD ==
    <<"P", "r", "o", "b", "l", "e", "m", " ", "D", "e", "s", "c",
      "r", "i", "p", "t", "i", "o", "n", ":", "\n">>

USER_PROMPT_TEMPLATE ==
    <<"\n", "\n", "L", "e", "a", "n", " ", "C", "o", "d", "e", " ",
      "T", "e", "m", "p", "l", "a", "t", "e", ":", "\n", "BACKTICK", "BACKTICK",
      "BACKTICK", "l", "e", "a", "n", "\n">>

USER_PROMPT_TAIL == <<"\n", "BACKTICK", "BACKTICK", "BACKTICK", "\n">>

\* The literal of line 184, a plain string: its braces stay doubled.
STUB_FEEDBACK ==
    <<"Y", "o", "u", "r", " ", "s", "o", "l", "u", "t", "i", "o",
      "n", " ", "c", "o", "n", "t", "a", "i", "n", "s", " ", "'",
      "s", "o", "r", "r", "y", "'", ".", " ", "P", "l", "e", "a",
      "s", "e", " ", "p", "r", "o", "v", "i", "d", "e", " ", "a",
      " ", "c", "o", "m", "p", "l", "e", "t", "e", " ", "i", "m",
      "p", "l", "e", "m", "e", "n", "t", "a", "t", "i", "o", "n",
      " ", "a", "n", "d", " ", "p", "r", "o", "o", "f", " ", "w",
      "i", "t", "h", "o", "u", "t", " ", "u", "s", "i", "n", "g",
      " ", "'", "s", "o", "r", "r", "y", "'", ".", " ", "J", "u",
      "s", "t", " ", "p", "r", "o", "v", "i", "d", "e", " ", "t",
      "h", "e", " ", "e", "x", "a", "c", "t", " ", "c", "o", "d",
      "e", " ", "a", "n", "d", " ", "p", "r", "o", "o", "f", " ",
      "b", "o", "d", "y", " ", "t", "h", "a", "t", " ", "s", "h",
      "o", "u", "l", "d", " ", "r", "e", "p", "l", "a", "c", "e",
      " ", "{", "{", "c", "o", "d", "e", "}", "}", " ", "a", "n",
      "d", " ", "{", "{", "p", "r", "o", "o", "f", "}", "}", " ",
      "r", "e", "s", "p", "e", "c", "t", "i", "v", "e", "l", "y",
      ".">>

\* The f-string of lines 189-197 before {verification_result}.
HARD_FAILURE_HEAD ==
    <<"Y", "o", "u", "r", " ", "s", "o", "l", "u", "t", "i", "o",
      "n", " ", "h", "a", "d", " ", "e", "r", "r", "o", "r", "s",
      ":", "\n">>

\* The f-string of lines 189-197 after {verification_result}; an f-string
\* writes {{code}} as {code}.
HARD_FAILURE_TAIL ==
    <<"\n", "\n", "P", "l", "e", "a", "s", "e", " ", "f", "i", "x",
      " ", "t", "h", "e", " ", "c", "o", "d", "e", " ", "a", "n",
      "d", " ", "p", "r", "o", "o", "f", ".", " ", "R", "e", "m",
      "e", "m", "b", "e", "r", ":", "\n", "1", ".", " ", "O", "N",
      "L", "Y", " ", "p", "r", "o", "v", "i", "d", "e", " ", "t",
      "h", "e", " ", "e", "x", "a", "c", "t", " ", "b", "o", "d",
      "y", " ", "f", "o", "r", " ", "{", "c", "o", "d", "e", "}",
      " ", "a", "n", "d", " ", "{", "p", "r", "o", "o", "f", "}",
      "\n", "2", ".", " ", "D", "o", " ", "n", "o", "t", " ", "i",
      "n", "c", "l", "u", "d", "e", " ", "f", "u", "n", "c", "t",
      "i", "o", "n", " ", "d", "e", "f", "i", "n", "i", "t", "i",
      "o", "n", "s", " ", "o", "r", " ", "e", "x", "t", "r", "a",
      " ", "f", "o", "r", "m", "a", "t", "t", "i", "n", "g", "\n",
      "3", ".", " ", "A", "v", "o", "i", "d", " ", "u", "s", "i",
      "n", "g", " ", "d", "o", "t", "s", " ", "(", ".", ")", " ",
      "a", "t", " ", "t", "h", "e", " ", "b", "e", "g", "i", "n",
      "n", "i", "n", "g", " ", "o", "f", " ", "l", "i", "n", "e",
      "s", " ", "i", "n", " ", "t", "h", "e", " ", "p", "r", "o",
      "o", "f", "\n", "4", ".", " ", "D", "o", " ", "n", "o", "t",
      " ", "u", "s", "e", " ", "n", "e", "s", "t", "e", "d", " ",
      "s", "y", "n", "t", "a", "x", " ", "l", "i", "k", "e", " ",
      "'", "b", "y", "_", "c", "a", "s", "e", "s", " ", "h", "'",
      " ", "i", "n", "s", "i", "d", "e", " ", "a", " ", "c", "a",
      "s", "e", "\n", "5", ".", " ", "U", "s", "e", " ", "s", "i",
      "m", "p", "l", "e", " ", "p", "r", "o", "o", "f", " ", "t",
      "a", "c", "t", "i", "c", "s", " ", "l", "i", "k", "e", " ",
      "'", "s", "i", "m", "p", "'", ",", " ", "'", "r", "f", "l",
      "'", ",", " ", "'", "e", "x", "a", "c", "t", "'", ",", " ",
      "e", "t", "c", ".">>

-----------------------------------------------------------------------------
(* The inputs: what the caller passes, what the model answers and what the *)
(* verifier reports.                                                       *)

\* The inputs of main_workflow: a description, and the template of the spec's
\* example.
PROBLEM_DESCRIPTION == <<"R", "e", "t", "u", "r", "n", " ", "x", ".">>

TEMPLATE ==
    <<"t", "h", "e", "o", "r", "e", "m", " ", "t", " ", ":", "=",
      " ", "{", "{", "c", "o", "d", "e", "}", "}", " ", ".", ".",
      ".", " ", "{", "{", "p", "r", "o", "o", "f", "}", "}">>

\* The model's responses: well formed; with sorry as the proof, as the code and
\* inside the proof; without a marker; with no CODE: section; with a fenced code
\* section and a bullet in the proof.
RESPONSE_GOOD ==
    <<"C", "O", "D", "E", ":", "\n", "x", "+", "1", "\n", "P", "R",
      "O", "O", "F", ":", "\n", "r", "f", "l">>

RESPONSE_SORRY_PROOF ==
    <<"C", "O", "D", "E", ":", "\n", "x", "+", "1", "\n", "P", "R",
      "O", "O", "F", ":", "\n", "s", "o", "r", "r", "y">>

RESPONSE_SORRY_CODE ==
    <<"c", "o", "d", "e", ":", " ", "s", "o", "r", "r", "y", "\n",
      "p", "r", "o", "o", "f", ":", " ", "s", "i", "m", "p">>

RESPONSE_INNER_SORRY ==
    <<"C", "O", "D", "E", ":", "\n", "x", "\n", "P", "R", "O", "O",
      "F", ":", "\n", "e", "x", "a", "c", "t", " ", "s", "o", "r",
      "r", "y">>

RESPONSE_NO_MARKER == <<"I", " ", "g", "i", "v", "e", " ", "u", "p">>

RESPONSE_PROOF_ONLY ==
    <<"P", "R", "O", "O", "F", ":", "\n", "BACKTICK", "BACKTICK", "BACKTICK", "l", "e",
      "a", "n", "\n", ".", " ", "r", "f", "l", "\n", "BACKTICK", "BACKTICK", "BACKTICK">>

RESPONSE_FENCED ==
    <<"C", "O", "D", "E", ":", "\n", "BACKTICK", "BACKTICK", "BACKTICK", "l", "e", "a",
      "n", "\n", "x", "+", "1", "\n", "BACKTICK", "BACKTICK", "BACKTICK", "\n", "P", "R",
      "O", "O", "F", ":", "\n", ".", " ", "s", "i", "m", "p">>

\* The verifier's results: the success marker alone, the marker followed by a
\* warning, and a diagnostic.
RESULT_SUCCESS ==
    <<"L", "e", "a", "n", " ", "c", "o", "d", "e", " ", "e", "x",
      "e", "c", "u", "t", "e", "d", " ", "s", "u", "c", "c", "e",
      "s", "s", "f", "u", "l", "l", "y", ".">>

RESULT_SUCCESS_WARNING ==
    <<"L", "e", "a", "n", " ", "c", "o", "d", "e", " ", "e", "x",
      "e", "c", "u", "t", "e", "d", " ", "s", "u", "c", "c", "e",
      "s", "s", "f", "u", "l", "l", "y", ".", "\n", "w", "a", "r",
      "n", "i", "n", "g", ":", " ", "d", "e", "c", "l", "a", "r",
      "a", "t", "i", "o", "n", " ", "u", "s", "e", "s", " ", "'",
      "s", "o", "r", "r", "y", "'">>

RESULT_ERROR ==
    <<"L", "e", "a", "n", " ", "E", "r", "r", "o", "r", ":", " ",
      "t", "y", "p", "e", " ", "m", "i", "s", "m", "a", "t", "c",
      "h">>

Templates == {TEMPLATE}

Responses ==
    {RESPONSE_GOOD, RESPONSE_SORRY_PROOF, RESPONSE_SORRY_CODE,
     RESPONSE_INNER_SORRY, RESPONSE_NO_MARKER, RESPONSE_PROOF_ONLY, RESPONSE_FENCED}

VerifierResults == {RESULT_SUCCESS, RESULT_SUCCESS_WARNING, RESULT_ERROR}

\* Any first response (AnySpec): every text of at most MaxChunks of these pieces,
\* which build the two markers in several cases, and miss them narrowly.
MaxChunks == 3

Chunks ==
    {<<"C", "O", "D", "E">>, <<"C", "o", "d", "e", ":">>, <<"p", "r", "o", "o", "f">>,
     <<":">>, <<" ">>, <<"\n">>, <<"x">>, SORRY}

RECURSIVE TextsOf(_)
TextsOf(n) ==
    IF n = 0 THEN {<<>>}
    ELSE LET shorter == TextsOf(n - 1)
         IN  shorter \cup {t \o c : t \in shorter, c \in Chunks}

AnyResponses == TextsOf(MaxChunks)

\* The responses that follow it.
FollowUps == {RESPONSE_GOOD}

\* Templates for the binding (BindSpec): every sequence of at most MaxParts parts,
\* a part being one of the two placeholders or a piece of other text.
MaxParts == 3

Parts == {"code", "proof", "text"}

FILLER == <<" ", "a", " ">>

RECURSIVE ShapesOf(_)
ShapesOf(n) ==
    IF n = 0 THEN {<<>>}
    ELSE LET shorter == ShapesOf(n - 1)
         IN  shorter \cup {Append(s, part) : s \in shorter, part \in Parts}

TemplateShapes == ShapesOf(MaxParts)

\* The template of a shape, and the text it becomes with code at its "code" parts
\* and proof at its "proof" parts.
RECURSIVE Fill(_, _, _)
Fill(shape, code, proof) ==
    IF shape = <<>> THEN <<>>
    ELSE (CASE Head(shape) = "code"  -> code
            [] Head(shape) = "proof" -> proof
            [] Head(shape) = "text"  -> FILLER)
         \o Fill(Tail(shape), code, proof)

Render(shape) == Fill(shape, CODE_SLOT, PROOF_SLOT)

BindTemplates == {TEMPLATE} \cup {Render(shape) : shape \in TemplateShapes}

\* A code candidate that holds the text of the proof placeholder.
RESPONSE_SLOT_IN_CODE ==
    <<"C", "O", "D", "E", ":", "\n", "f", " ", "{", "{", "p", "r",
      "o", "o", "f", "}", "}", "\n", "P", "R", "O", "O", "F", ":",
      "\n", "r", "f", "l">>

\* A proof candidate that holds the text of the code placeholder.
RESPONSE_SLOT_IN_PROOF ==
    <<"C", "O", "D", "E", ":", "\n", "x", "\n", "P", "R", "O", "O",
      "F", ":", "\n", "b", "y", " ", "{", "{", "c", "o", "d", "e",
      "}", "}">>

BindResponses ==
    {RESPONSE_GOOD, RESPONSE_NO_MARKER, RESPONSE_SLOT_IN_CODE, RESPONSE_SLOT_IN_PROOF}

\* First responses for the parser (ParseSpec): texts of at most MaxMarkerParts
\* markers and pieces of other text in any order; well-formed responses with a code
\* section of at most MaxPieces headers, fences and lines; well-formed responses
\* with a proof section of at most MaxPieces bullets and lines.
MaxMarkerParts == 4

MaxPieces == 3

MarkerKinds == {"Code", "PROOF", "proof", "c", "p"}

MarkerPiece(kind) ==
    CASE kind = "Code"  -> <<"C", "o", "d", "e", ":">>
      [] kind = "PROOF" -> PROOF_MARKER
      [] kind = "proof" -> <<"p", "r", "o", "o", "f", ":">>
      [] kind = "c"     -> <<" ", "c", " ">>
      [] kind = "p"     -> <<"p", "\n">>

RECURSIVE MarkerShapesOf(_)
MarkerShapesOf(n) ==
    IF n = 0 THEN {<<>>}
    ELSE LET shorter == MarkerShapesOf(n - 1)
         IN  shorter \cup {Append(s, kind) : s \in shorter, kind \in MarkerKinds}

MarkerShapes == MarkerShapesOf(MaxMarkerParts)

RECURSIVE MarkerText(_)
MarkerText(shape) ==
    IF shape = <<>> THEN <<>> ELSE MarkerPiece(Head(shape)) \o MarkerText(Tail(shape))

MarkerResponses == {MarkerText(shape) : shape \in MarkerShapes}

HEADER ==
    <<"d", "e", "f", " ", "f", " ", "(", "x", ")", " ", ":", " ",
      "T", " ", ":", "=">>

CodeChunks == {HEADER, <<"\n", " ", " ">>, <<"\n">>, <<"z">>, FENCE}

ProofChunks ==
    {<<"x", "\n">>, <<"\n">>, <<".">>, <<"MIDDOT">>, <<"BULLET", " ">>, <<"r", "f", "l">>}

RECURSIVE PiecesOf(_, _)
PiecesOf(chunks, n) ==
    IF n = 0 THEN {<<>>}
    ELSE LET shorter == PiecesOf(chunks, n - 1)
         IN  shorter \cup {t \o c : t \in shorter, c \in chunks}

\* 'CODE:\n' + code + '\nPROOF:\n' + proof
WellFormed(code, proof) ==
    CODE_MARKER \o <<"\n">> \o code \o <<"\n">> \o PROOF_MARKER \o <<"\n">> \o proof

CodeResponses == {WellFormed(code, <<"r", "f", "l">>) : code \in PiecesOf(CodeChunks, MaxPieces)}

ProofResponses == {WellFormed(<<"x">>, proof) : proof \in PiecesOf(ProofChunks, MaxPieces)}

ParseResponses == MarkerResponses \cup CodeResponses \cup ProofResponses

\* parse_code_proof on the responses the model can give, computed once.
parsed ==
    [r \in Responses \cup AnyResponses \cup BindResponses \cup ParseResponses
        |-> parse_code_proof(r)]

-----------------------------------------------------------------------------
(* main_workflow: the operations of one iteration.                         *)

Message(role, content) == [role |-> role, content |-> content]

user_prompt(description, template) ==
    USER_PROMPT_HEAD \o description \o USER_PROMPT_TEMPLATE \o template \o USER_PROMPT_TAIL

\* The conversation started without the system message.
InitialMessages_NoSystem(description, template) ==
    <<Message("user", user_prompt(description, template))>>

\* Lines 153-156.
InitialMessages(description, template) ==
    <<Message("system", SYSTEM_PROMPT), Message("user", user_prompt(description, template))>>

\* The loop test written with <=.
LoopCondition_OffByOne(r) == r <= max_retries

\* Line 158.
LoopCondition(r) == r < max_retries

\* Line 161: the argument agent.get_response is called with.
CallArgument(msgs) == msgs

\* Lines 171-172.
Bind(template, code, proof) ==
    Replace(Replace(template, CODE_SLOT, code), PROOF_SLOT, proof)

\* The success test written with == instead of in.
IsSuccess_Exact(result) == result = SUCCESS_MARKER

\* Line 178.
IsSuccess(result) == Contains(result, SUCCESS_MARKER)

\* The stub test written with and instead of or.
IsStub_Both(code, proof) == Contains(code, SORRY) /\ Contains(proof, SORRY)

\* Line 181.
IsStub(code, proof) == Contains(code, SORRY) \/ Contains(proof, SORRY)

\* The stub feedback without the assistant's message before it.
StubMessages_NoAssistant(raw) == <<Message("user", STUB_FEEDBACK)>>

\* Lines 183-184.
StubMessages(raw) ==
    <<Message("assistant", raw), Message("user", STUB_FEEDBACK)>>

\* The feedback without the diagnostic.
HardFailureMessages_NoDiagnostic(raw, result) ==
    <<Message("assistant", raw),
      Message("user", HARD_FAILURE_HEAD \o HARD_FAILURE_TAIL)>>

\* Lines 188-197.
HardFailureMessages(raw, result) ==
    <<Message("assistant", raw),
      Message("user", HARD_FAILURE_HEAD \o result \o HARD_FAILURE_TAIL)>>

\* The counter stepped by two.
NextRetries_Twice(r) == r + 2

\* Line 199.
NextRetries(r) == r + 1

\* The dictionary built from the initial pair of lines 53-54.
LeanCode_Initial(code, proof) == [code |-> SORRY, proof |-> SORRY]

\* Lines 204-207.
LeanCode(code, proof) == [code |-> code, proof |-> proof]

-----------------------------------------------------------------------------
(* main_workflow as a state machine.  pc is "loop" at the test of line 158,*)
(* "parse" at line 166, "bind" at 171, "verify" at 175, "classify" at 178, *)
(* "return" at 204 after the break, "done" after the return.               *)

\* Lines 53-56 and 153-156: the state when the loop is first reached.  response,
\* temp_lean_code and verification_result are unbound until their first assignment.
Start(template) ==
    /\ task_lean_code = template
    /\ messages = InitialMessages(PROBLEM_DESCRIPTION, template)
    /\ retries = 0
    /\ response = <<>>
    /\ generated_function_implementation = SORRY
    /\ generated_proof = SORRY
    /\ temp_lean_code = <<>>
    /\ verification_result = <<>>
    /\ pc = "loop"
    /\ returned = None
    /\ model_calls = 0
    /\ verifier_calls = 0
    /\ sent = None
    /\ verified = None

Init ==
    /\ \E template \in Templates : Start(template)
    /\ prev = None

\* Line 161, the model answering with one of candidates.
CallModel(candidates) ==
    /\ pc = "loop"
    /\ LoopCondition(retries)
    /\ \E r \in candidates : response' = r
    /\ sent' = Some(CallArgument(messages))
    /\ model_calls' = model_calls + 1
    /\ pc' = "parse"
    /\ UNCHANGED <<task_lean_code, messages, retries, generated_function_implementation,
                   generated_proof, temp_lean_code, verification_result, returned,
                   verifier_calls, verified, prev>>

agent_get_response == CallModel(Responses)

\* The response left unparsed: the pair stays the one of the attempt before.
Parse_Keep ==
    /\ pc = "parse"
    /\ pc' = "bind"
    /\ UNCHANGED <<task_lean_code, messages, retries, response,
                   generated_function_implementation, generated_proof, temp_lean_code,
                   verification_result, returned, model_calls, verifier_calls, sent, verified, prev>>

\* Line 166.
Parse ==
    /\ pc = "parse"
    /\ LET pair == parsed[response]
       IN  /\ generated_function_implementation' = pair[1]
           /\ generated_proof' = pair[2]
    /\ pc' = "bind"
    /\ UNCHANGED <<task_lean_code, messages, retries, response, temp_lean_code,
                   verification_result, returned, model_calls, verifier_calls, sent, verified, prev>>

\* Lines 171-172.
BindTemplate ==
    /\ pc = "bind"
    /\ temp_lean_code' = Bind(task_lean_code, generated_function_implementation,
                              generated_proof)
    /\ pc' = "verify"
    /\ UNCHANGED <<task_lean_code, messages, retries, response,
                   generated_function_implementation, generated_proof,
                   verification_result, returned, model_calls, verifier_calls, sent, verified, prev>>

\* Line 175: the verifier is outside the program and may report anything.
execute_lean_code ==
    /\ pc = "verify"
    /\ \E result \in VerifierResults : verification_result' = result
    /\ verified' = Some(temp_lean_code)
    /\ verifier_calls' = verifier_calls + 1
    /\ pc' = "classify"
    /\ UNCHANGED <<task_lean_code, messages, retries, response,
                   generated_function_implementation, generated_proof, temp_lean_code,
                   returned, model_calls, sent, prev>>

\* Lines 178-180: the break.
Success ==
    /\ pc = "classify"
    /\ IsSuccess(verification_result)
    /\ pc' = "return"
    /\ UNCHANGED <<task_lean_code, messages, retries, response,
                   generated_function_implementation, generated_proof, temp_lean_code,
                   verification_result, returned, model_calls, verifier_calls, sent, verified, prev>>

\* The stub branch raising instead of asking again.
StubFeedback_Raise ==
    /\ pc = "classify"
    /\ ~IsSuccess(verification_result)
    /\ IsStub(generated_function_implementation, generated_proof)
    /\ pc' = "raised"
    /\ UNCHANGED <<task_lean_code, messages, retries, response,
                   generated_function_implementation, generated_proof, temp_lean_code,
                   verification_result, returned, model_calls, verifier_calls, sent, verified, prev>>

\* Lines 181-184 and 199-201.
StubFeedback ==
    /\ pc = "classify"
    /\ ~IsSuccess(verification_result)
    /\ IsStub(generated_function_implementation, generated_proof)
    /\ messages' = messages \o StubMessages(response)
    /\ retries' = NextRetries(retries)
    /\ pc' = "loop"
    /\ UNCHANGED <<task_lean_code, response, generated_function_implementation,
                   generated_proof, temp_lean_code, verification_result, returned,
                   model_calls, verifier_calls, sent, verified, prev>>

\* Lines 185-201.
HardFailure ==
    /\ pc = "classify"
    /\ ~IsSuccess(verification_result)
    /\ ~IsStub(generated_function_implementation, generated_proof)
    /\ messages' = messages \o HardFailureMessages(response, verification_result)
    /\ retries' = NextRetries(retries)
    /\ pc' = "loop"
    /\ UNCHANGED <<task_lean_code, response, generated_function_implementation,
                   generated_proof, temp_lean_code, verification_result, returned,
                   model_calls, verifier_calls, sent, verified, prev>>

\* The return giving the parsed pair only when the verifier accepted it.
Return_VerifiedOnly ==
    /\ pc = "return" \/ (pc = "loop" /\ ~LoopCondition(retries))
    /\ returned' = Some(IF IsSuccess(verification_result)
                        THEN LeanCode(generated_function_implementation, generated_proof)
                        ELSE LeanCode(SORRY, SORRY))
    /\ pc' = "done"
    /\ UNCHANGED <<task_lean_code, messages, retries, response,
                   generated_function_implementation, generated_proof, temp_lean_code,
                   verification_result, model_calls, verifier_calls, sent, verified, prev>>

\* Lines 203-207, reached by the break or by the loop condition failing.
Return ==
    /\ pc = "return" \/ (pc = "loop" /\ ~LoopCondition(retries))
    /\ returned' = Some(LeanCode(generated_function_implementation, generated_proof))
    /\ pc' = "done"
    /\ UNCHANGED <<task_lean_code, messages, retries, response,
                   generated_function_implementation, generated_proof, temp_lean_code,
                   verification_result, model_calls, verifier_calls, sent, verified, prev>>

Next ==
    \/ agent_get_response
    \/ Parse
    \/ BindTemplate
    \/ execute_lean_code
    \/ Success
    \/ StubFeedback
    \/ HardFailure
    \/ Return

Spec == Init /\ [][Next]_vars

\* The loop is sequential code: a step that can be taken is taken.
FairSpec == Spec /\ WF_vars(Next)

\* main_workflow with any text as the model's first response.
get_response_any == CallModel(IF model_calls = 0 THEN AnyResponses ELSE FollowUps)

AnyNext ==
    \/ get_response_any
    \/ Parse
    \/ BindTemplate
    \/ execute_lean_code
    \/ Success
    \/ StubFeedback
    \/ HardFailure
    \/ Return

AnySpec == Init /\ [][AnyNext]_vars

\* main_workflow with any template of BindTemplates.
BindInit ==
    /\ \E template \in BindTemplates : Start(template)
    /\ prev = None

get_response_bind == CallModel(BindResponses)

BindNext ==
    \/ get_response_bind
    \/ Parse
    \/ BindTemplate
    \/ execute_lean_code
    \/ Success
    \/ StubFeedback
    \/ HardFailure
    \/ Return

BindSpec == BindInit /\ [][BindNext]_vars

\* main_workflow with a first response of ParseResponses.
get_response_parse == CallModel(IF model_calls = 0 THEN ParseResponses ELSE FollowUps)

ParseNext ==
    \/ get_response_parse
    \/ Parse
    \/ BindTemplate
    \/ execute_lean_code
    \/ Success
    \/ StubFeedback
    \/ HardFailure
    \/ Return

ParseSpec == Init /\ [][ParseNext]_vars

\* main_workflow called a second time: prev keeps the last response, the verdict and
\* the value returned of the first execution.
CallAgain ==
    /\ pc = "done"
    /\ prev = None
    /\ prev' = Some([response |-> response,
                     success |-> IsSuccess(verification_result),
                     model_calls |-> model_calls,
                     returned |-> returned[1]])
    /\ \E template \in Templates :
           /\ task_lean_code' = template
           /\ messages' = InitialMessages(PROBLEM_DESCRIPTION, template)
    /\ retries' = 0
    /\ response' = <<>>
    /\ generated_function_implementation' = SORRY
    /\ generated_proof' = SORRY
    /\ temp_lean_code' = <<>>
    /\ verification_result' = <<>>
    /\ pc' = "loop"
    /\ returned' = None
    /\ model_calls' = 0
    /\ verifier_calls' = 0
    /\ sent' = None
    /\ verified' = None

RunsNext ==
    \/ agent_get_response
    \/ Parse
    \/ BindTemplate
    \/ execute_lean_code
    \/ Success
    \/ StubFeedback
    \/ HardFailure
    \/ Return
    \/ CallAgain

RunsSpec == Init /\ [][RunsNext]_vars

-----------------------------------------------------------------------------
(* What the properties speak of.                                           *)

HasSuccessMarker == Contains(verification_result, SUCCESS_MARKER)

\* The loop stands at its test after an attempt that failed: the candidate pair
\* and the verifier's result are still those of that attempt.
AfterFailedAttempt == pc = "loop" /\ retries > 0

LastMessage == messages[Len(messages)]

HardFailureText == HARD_FAILURE_HEAD \o verification_result \o HARD_FAILURE_TAIL

IsPrefix(s, t) == Len(s) <= Len(t) /\ SubSeq(t, 1, Len(s)) = s

\* The step that classifies a result without the success marker.
FailedAttemptAppendsTwo ==
    (pc = "classify" /\ ~HasSuccessMarker)
        => /\ Len(messages') = Len(messages) + 2
           /\ messages'[Len(messages) + 1] = Message("assistant", response)
           /\ messages'[Len(messages) + 2].role = "user"
           /\ messages'[Len(messages) + 2].content \in {STUB_FEEDBACK, HardFailureText}

\* The step that calls the model.
ModelGetsWholeHistory ==
    model_calls' # model_calls => sent' = Some(messages)

-----------------------------------------------------------------------------
\* C1: in every execution of main_workflow the model is called at most max_retries
\* times, and so is the verifier.
CallsWithinBudget ==
    /\ model_calls <= max_retries
    /\ verifier_calls <= max_retries

\* An execution that used the whole budget.
CallsWithinBudget_Witness ==
    /\ pc = "done"
    /\ model_calls = max_retries
    /\ verifier_calls = max_retries

\* The step taken from the classification of a result with the success marker.
SuccessBreaks ==
    (pc = "classify" /\ HasSuccessMarker)
        => /\ pc' = "return"
           /\ messages' = messages
           /\ retries' = retries
           /\ model_calls' = model_calls
           /\ verifier_calls' = verifier_calls

\* The steps taken once the loop is left.
NothingAfterLoop ==
    pc \in {"return", "done"}
        => /\ pc' = "done"
           /\ messages' = messages
           /\ model_calls' = model_calls
           /\ verifier_calls' = verifier_calls

FirstSuccessOneCall ==
    (pc = "done" /\ HasSuccessMarker /\ retries = 0)
        => (model_calls = 1 /\ verifier_calls = 1)

SuccessCallCounts ==
    (pc \in {"return", "done"} /\ HasSuccessMarker)
        => /\ model_calls = retries + 1
           /\ verifier_calls = retries + 1
           /\ Len(messages) = 2 + 2 * retries

\* C2: success has priority.  When the verifier's result holds the success marker
\* the loop ends in that attempt whatever the candidate pair is: no message is
\* appended, the counter is not changed, and from then on no model or verifier call
\* is made; when the first result holds the marker there was one call of each.
SuccessEndsLoop ==
    /\ [][SuccessBreaks]_vars
    /\ [][NothingAfterLoop]_vars
    /\ [](FirstSuccessOneCall /\ SuccessCallCounts)

\* The first attempt succeeded with the sentinel in both fields, under a result
\* that holds more than the marker.
SuccessEndsLoop_Witness ==
    /\ pc = "done"
    /\ HasSuccessMarker
    /\ verification_result # SUCCESS_MARKER
    /\ generated_function_implementation = SORRY
    /\ generated_proof = SORRY
    /\ model_calls = 1

\* C3: after an attempt whose result lacks the success marker and whose pair has
\* exactly one field equal to the sentinel, the feedback appended is the stub
\* message, not the hard-failure message with the diagnostic.
OneSentinelGetsStubFeedback ==
    (/\ AfterFailedAttempt
     /\ (generated_function_implementation = SORRY) # (generated_proof = SORRY))
        => /\ LastMessage = Message("user", STUB_FEEDBACK)
           /\ LastMessage.content # HardFailureText
           /\ ~Contains(LastMessage.content, verification_result)

\* Such an attempt, with the sentinel as the code only.
OneSentinelGetsStubFeedback_Witness ==
    /\ AfterFailedAttempt
    /\ generated_function_implementation = SORRY
    /\ generated_proof # SORRY
    /\ ~Contains(generated_proof, SORRY)
    /\ LastMessage.content = STUB_FEEDBACK

\* C4 as claimed: after a failed attempt in which neither candidate equals the
\* sentinel, the appended message is the hard-failure message, which holds the
\* verifier's result, and not the stub message.
NoSentinelFieldGetsDiagnostic ==
    (/\ AfterFailedAttempt
     /\ generated_function_implementation # SORRY
     /\ generated_proof # SORRY)
        => /\ LastMessage = Message("user", HardFailureText)
           /\ Contains(LastMessage.content, verification_result)
           /\ LastMessage.content # STUB_FEEDBACK

\* C4 as amended: the stub branch is taken exactly when a candidate contains the
\* sentinel.  After a failed attempt in which neither candidate contains 'sorry'
\* the appended message is the hard-failure message, which holds the verifier's
\* result verbatim; in every other failed attempt it is the stub message.
NoSorryGetsDiagnostic ==
    AfterFailedAttempt
        => IF \/ Contains(generated_function_implementation, SORRY)
              \/ Contains(generated_proof, SORRY)
           THEN LastMessage = Message("user", STUB_FEEDBACK)
           ELSE /\ LastMessage = Message("user", HardFailureText)
                /\ Contains(LastMessage.content, verification_result)
                /\ LastMessage.content # STUB_FEEDBACK

\* A failed attempt whose candidates are free of 'sorry'.
NoSorryGetsDiagnostic_Witness ==
    /\ AfterFailedAttempt
    /\ ~Contains(generated_function_implementation, SORRY)
    /\ ~Contains(generated_proof, SORRY)
    /\ Contains(LastMessage.content, verification_result)

\* C5: the conversation is append-only.  Every step leaves the messages it found
\* as a prefix of the new list; a failed attempt appends two messages, the
\* assistant's with the raw response and then the user's with the feedback; and
\* every model call is given the whole list as it stands.
ConversationAppendOnly ==
    /\ [][IsPrefix(messages, messages')]_vars
    /\ [][FailedAttemptAppendsTwo]_vars
    /\ [][ModelGetsWholeHistory]_vars

\* The budget was used up by three failures: six messages were appended, and the
\* last model call was given the four that stood before it.
ConversationAppendOnly_Witness ==
    /\ pc = "done"
    /\ Len(messages) = 2 + 2 * max_retries
    /\ messages[3] = Message("assistant", RESPONSE_GOOD)
    /\ messages[4].role = "user"
    /\ messages[5].role = "assistant"
    /\ messages[6].content = STUB_FEEDBACK
    /\ sent = Some(SubSeq(messages, 1, 2 * max_retries))

\* C6: the dictionary returned holds the pair parsed from the latest response,
\* the pair bound into the program the verifier was last called with: the accepted
\* pair after a success, the pair of attempt max_retries after exhaustion.  At
\* least one response was parsed before the return.
ReturnsLastParsedPair ==
    pc = "done"
        => /\ returned = Some(LeanCode(parse_code_proof(response)[1],
                                       parse_code_proof(response)[2]))
           /\ verified = Some(Bind(task_lean_code, returned[1].code, returned[1].proof))
           /\ model_calls >= 1
           /\ verifier_calls = model_calls
           /\ sent # None
           /\ (~HasSuccessMarker => model_calls = max_retries)

\* The budget ran out on a pair that is not the initial one.
ReturnsLastParsedPair_Witness ==
    /\ pc = "done"
    /\ ~HasSuccessMarker
    /\ returned # Some([code |-> SORRY, proof |-> SORRY])
    /\ response # messages[3].content

\* C7: main_workflow terminates and returns a candidate pair, whatever the model
\* answers and the verifier reports.
Terminates == <>(pc = "done" /\ returned # None)

\* It returned after three failures, the first a hard failure, the last a stub.
Terminates_Witness ==
    /\ pc = "done"
    /\ returned # None
    /\ retries = max_retries
    /\ Contains(messages[4].content, HARD_FAILURE_HEAD)
    /\ messages[8].content = STUB_FEEDBACK

\* C8 as claimed: the counter stays in 0..max_retries and after k iterations, that
\* is k model calls, its value is k whatever the outcome of those iterations.
CounterCountsIterations ==
    /\ retries \in 0..max_retries
    /\ pc \in {"loop", "return", "done"} => retries = model_calls

\* C8 as amended: the counter stays in 0..max_retries and is incremented once in
\* every iteration that does not succeed and not at all in the one that breaks
\* out: after k model calls it is k when attempt k failed, k - 1 when attempt k
\* succeeded or is under way.  It is max_retries when the budget is exhausted.
CounterCountsFailedAttempts ==
    /\ retries \in 0..max_retries
    /\ pc = "loop" => retries = model_calls
    /\ pc \in {"parse", "bind", "verify", "classify", "return"} => retries = model_calls - 1
    /\ pc = "done" => retries = model_calls - (IF HasSuccessMarker THEN 1 ELSE 0)
    /\ (pc = "done" /\ ~HasSuccessMarker) => retries = max_retries

\* The third attempt succeeded: three model calls, the counter at two.
CounterCountsFailedAttempts_Witness ==
    /\ pc = "done"
    /\ HasSuccessMarker
    /\ model_calls = max_retries
    /\ retries = max_retries - 1

\* C9: the value returned does not tell the verdict.  Two executions whose last
\* model response is the same return the same pair, whether the last result was a
\* success or a failure.
ReturnHidesVerdict ==
    (pc = "done" /\ prev # None /\ prev[1].response = response)
        => returned = Some(prev[1].returned)

\* The same last response on the final attempt of both executions: accepted in
\* the first, rejected in the second, which ran out of budget.
ReturnHidesVerdict_Witness ==
    /\ pc = "done"
    /\ prev # None
    /\ prev[1].response = response
    /\ prev[1].success
    /\ ~HasSuccessMarker
    /\ prev[1].model_calls = max_retries
    /\ model_calls = max_retries

LowerText(text) == [k \in 1..Len(text) |-> Lower(text[k])]

\* The text holds neither marker, in any letter case.
NoMarker(text) ==
    /\ ~Contains(LowerText(text), <<"c", "o", "d", "e", ":">>)
    /\ ~Contains(LowerText(text), <<"p", "r", "o", "o", "f", ":">>)

\* The latest response has been parsed, bound, submitted.
IsParsed == model_calls > 0 /\ pc # "parse"

IsBound == IsParsed /\ pc # "bind"

IsSubmitted == IsBound /\ pc # "verify"

\* The template of the example with the sentinel in both slots.
TEMPLATE_WITH_SORRY ==
    <<"t", "h", "e", "o", "r", "e", "m", " ", "t", " ", ":", "=",
      " ", "s", "o", "r", "r", "y", " ", ".", ".", ".", " ", "s",
      "o", "r", "r", "y">>

\* C10: a response with neither marker parses to the sentinel pair; the program
\* bound from it has the sentinel in both slots and is submitted to the verifier,
\* and no feedback is appended before the verifier was called for the attempt.
NoMarkerGivesSentinelPair ==
    /\ Len(messages) <= 2 + 2 * verifier_calls
    /\ (NoMarker(response) /\ IsParsed)
           => /\ generated_function_implementation = SORRY
              /\ generated_proof = SORRY
    /\ (NoMarker(response) /\ IsBound /\ task_lean_code = TEMPLATE)
           => temp_lean_code = TEMPLATE_WITH_SORRY
    /\ (NoMarker(response) /\ IsSubmitted)
           => /\ verified = Some(temp_lean_code)
              /\ verifier_calls = model_calls

\* A first response that misses the marker by a space, submitted and not yet
\* answered with feedback.
NoMarkerGivesSentinelPair_Witness ==
    /\ pc = "classify"
    /\ response = <<"C", "O", "D", "E", " ", ":">>
    /\ verified = Some(TEMPLATE_WITH_SORRY)
    /\ verifier_calls = 1
    /\ Len(messages) = 2

-----------------------------------------------------------------------------
(* The binding of lines 171-172 (BindSpec).                                *)

\* The template of a shape with the first "code" part and the first "proof" part
\* filled and every later placeholder left as it is.
RECURSIVE FillFirst(_, _, _)
FillFirst(shape, code, proof) ==
    IF shape = <<>> THEN <<>>
    ELSE (CASE Head(shape) = "code"  -> code
            [] Head(shape) = "proof" -> proof
            [] Head(shape) = "text"  -> FILLER)
         \o FillFirst(Tail(shape),
                      IF Head(shape) = "code" THEN CODE_SLOT ELSE code,
                      IF Head(shape) = "proof" THEN PROOF_SLOT ELSE proof)

Count(shape, part) == Cardinality({k \in DOMAIN shape : shape[k] = part})

NoSlotInCandidates ==
    /\ ~Contains(generated_function_implementation, PROOF_SLOT)
    /\ ~Contains(generated_function_implementation, CODE_SLOT)
    /\ ~Contains(generated_proof, PROOF_SLOT)
    /\ ~Contains(generated_proof, CODE_SLOT)

\* The code candidate as it stands in the bound text: line 172 also replaces the
\* proof placeholders that line 171 inserted with it.
InsertedCode == Replace(generated_function_implementation, PROOF_SLOT, generated_proof)

TEMPLATE_HEAD ==
    <<"t", "h", "e", "o", "r", "e", "m", " ", "t", " ", ":", "=",
      " ">>

TEMPLATE_MIDDLE == <<" ", ".", ".", ".", " ">>

InsertsCandidatesVerbatim ==
    /\ \A shape \in TemplateShapes :
           (IsBound /\ task_lean_code = Render(shape)
                /\ Count(shape, "code") = 1 /\ Count(shape, "proof") = 1)
               => temp_lean_code = Fill(shape, generated_function_implementation,
                                        generated_proof)
    /\ (IsBound /\ task_lean_code = TEMPLATE)
           => temp_lean_code = TEMPLATE_HEAD \o generated_function_implementation
                                   \o TEMPLATE_MIDDLE \o generated_proof

-----------------------------------------------------------------------------
(* parse_code_proof on the first response (ParseSpec).                     *)

\* The text has a CODE: marker and a PROOF: marker after it.
HasBothSections(text) ==
    \E i, j \in 1..Len(text) :
        /\ i < j
        /\ AtIgnoreCase(text, i, CODE_MARKER)
        /\ AtIgnoreCase(text, j, PROOF_MARKER)

\* C12: parsing is idempotent on well-formed responses.  When the response holds
\* a CODE: section followed by a PROOF: section and (c, p) is its parse, the parse
\* of 'CODE:\n' + c + '\nPROOF:\n' + p is (c, p) again.
ParseIdempotent ==
    (IsParsed /\ HasBothSections(response))
        => parse_code_proof(WellFormed(generated_function_implementation, generated_proof))
               = <<generated_function_implementation, generated_proof>>

RECURSIVE SplitLines(_)
SplitLines(t) ==
    LET S == {j \in 1..Len(t) : t[j] = "\n"}
    IN  IF S = {} THEN <<t>>
        ELSE <<SubSeq(t, 1, Min(S) - 1)>> \o SplitLines(SubSeq(t, Min(S) + 1, Len(t)))

RECURSIVE JoinLines(_)
JoinLines(lines) ==
    IF Len(lines) = 1 THEN lines[1]
    ELSE lines[1] \o <<"\n">> \o JoinLines(Tail(lines))

\* A line that begins with one of the three glyphs, rewritten to begin with one
\* bullet and one space; any other line as it is.
NormalizedLine(line) ==
    IF line # <<>> /\ line[1] \in {".", "MIDDOT", "BULLET"}
    THEN CANONICAL_BULLET \o SubSeq(line, SkipSpace(line, 2), Len(line))
    ELSE line

\* The proof span of the response, stripped (lines 14 and 17).
ProofSpan == strip(SubSeq(response, Len(WellFormed(<<"x">>, <<>>)) + 1, Len(response)))

\* C13: in the proof span every line that begins with '.', MIDDOT or BULLET and
\* optional whitespace is rewritten to begin with the bullet and one space, and
\* every other line, a blank line and a line before a bullet line among them, is
\* left as it is and keeps its place.
BulletsNormalizedLineByLine ==
    (IsParsed /\ response \in ProofResponses /\ ProofSpan # <<>>)
        => generated_proof =
               JoinLines([k \in DOMAIN SplitLines(ProofSpan)
                             |-> NormalizedLine(SplitLines(ProofSpan)[k])])

Blank(t) == \A k \in DOMAIN t : IsSpace(t[k])

\* The text after the first marker of the response, up to the text's end.
AfterMarker(marker) ==
    LET S == {i \in 1..Len(response) : AtIgnoreCase(response, i, marker)}
    IN  IF S = {} THEN <<>>
        ELSE SubSeq(response, Min(S) + Len(marker), Len(response))

\* The code section of a response of CodeResponses.
CodeSection ==
    SubSeq(response, Len(CODE_MARKER) + 2, Len(response) - Len(WellFormed(<<>>, <<"r", "f", "l">>)) + Len(CODE_MARKER) + 1)

\* C14: both fields of the parsed pair are non-empty, and hold more than
\* whitespace, for every response.  A field whose span is missing, or is empty once
\* whitespace, fences and the header line are stripped, is the sentinel; the bound
\* text holds a candidate at each placeholder.
BothFieldsNonEmpty ==
    IsParsed
        => /\ generated_function_implementation # <<>>
           /\ generated_proof # <<>>
           /\ ~Blank(generated_function_implementation)
           /\ ~Blank(generated_proof)
           /\ Blank(AfterMarker(CODE_MARKER)) => generated_function_implementation = SORRY
           /\ Blank(AfterMarker(PROOF_MARKER)) => generated_proof = SORRY
           /\ (response \in CodeResponses
                   /\ \/ Blank(CodeSection)
                      \/ \E lead, trail \in {<<>>, <<"\n">>, <<"\n", " ", " ">>} :
                             CodeSection \in {lead \o FENCE \o trail,
                                              lead \o HEADER \o trail,
                                              FENCE \o lead \o HEADER,
                                              FENCE \o lead \o FENCE,
                                              HEADER \o lead \o FENCE})
                  => generated_function_implementation = SORRY
           /\ IsBound
                  => /\ ~Contains(temp_lean_code, CODE_SLOT)
                     /\ ~Contains(temp_lean_code, PROOF_SLOT)
                     /\ Len(temp_lean_code) >= Len(TEMPLATE_HEAD) + Len(TEMPLATE_MIDDLE) + 2

\* The code section was a fence and a header and nothing else: the code is the
\* sentinel, the proof is the one given, and the two are bound.
BothFieldsNonEmpty_Witness ==
    /\ pc = "classify"
    /\ response = WellFormed(FENCE \o <<"\n">> \o HEADER, <<"r", "f", "l">>)
    /\ generated_function_implementation = SORRY
    /\ generated_proof = <<"r", "f", "l">>
    /\ temp_lean_code = TEMPLATE_HEAD \o SORRY \o TEMPLATE_MIDDLE \o <<"r", "f", "l">>

\* The kinds of the pieces a text of MarkerResponses is made of, in order.
RECURSIVE ShapeOf(_)
ShapeOf(text) ==
    IF text = <<>> THEN <<>>
    ELSE LET kind == CHOOSE k \in MarkerKinds : At(text, 1, MarkerPiece(k))
         IN  <<kind>> \o ShapeOf(SubSeq(text, Len(MarkerPiece(kind)) + 1, Len(text)))

ProofKinds == {"PROOF", "proof"}

\* The pieces after the first code marker up to the next proof marker after it, or
\* to the end.
CodeSpanParts(shape) ==
    LET i == Min({k \in DOMAIN shape : shape[k] = "Code"} \cup {Len(shape) + 1})
        j == Min({k \in (i + 1)..Len(shape) : shape[k] \in ProofKinds} \cup {Len(shape) + 1})
    IN  SubSeq(shape, i + 1, j - 1)

\* The pieces after the first proof marker of the whole text, to the end.
ProofSpanParts(shape) ==
    LET i == Min({k \in DOMAIN shape : shape[k] \in ProofKinds} \cup {Len(shape) + 1})
    IN  SubSeq(shape, i + 1, Len(shape))

\* The field a span of these pieces gives: the span stripped, the sentinel when
\* nothing is left.
FieldOf(parts) ==
    IF Blank(MarkerText(parts)) THEN SORRY ELSE strip(MarkerText(parts))

\* C15: the code span is the text after the first CODE: marker, in any letter case,
\* up to the next PROOF: marker after it or the end of the text; the proof span is
\* the text after the first PROOF: marker of the whole response up to the end.  So
\* 'Code: c PROOF:p' gives the pair of c and p stripped, and with the first proof
\* marker before the code marker the proof holds the code marker and the code.
SpansFromFirstMarkers ==
    /\ (IsParsed /\ response \in MarkerResponses)
           => /\ generated_function_implementation = FieldOf(CodeSpanParts(ShapeOf(response)))
              /\ generated_proof = FieldOf(ProofSpanParts(ShapeOf(response)))
    /\ (IsParsed /\ response = MarkerText(<<"Code", "c", "PROOF", "p">>))
           => /\ generated_function_implementation = <<"c">>
              /\ generated_proof = <<"p">>
    /\ (IsParsed /\ response = MarkerText(<<"PROOF", "p", "Code", "c">>))
           => /\ generated_function_implementation = <<"c">>
              /\ generated_proof = <<"p", "\n", "C", "o", "d", "e", ":", " ", "c">>

\* The markers out of order and the proof marker twice: the proof is all the text
\* after the first proof marker, the code ends at the second.
SpansFromFirstMarkers_Witness ==
    /\ pc = "classify"
    /\ response = MarkerText(<<"proof", "Code", "c", "PROOF">>)
    /\ generated_function_implementation = <<"c">>
    /\ generated_proof = <<"C", "o", "d", "e", ":", " ", "c", " ", "P", "R", "O", "O", "F", ":">>

-----------------------------------------------------------------------------
(* The conversation and the order of the calls (Spec).                     *)

RoleAt(k) == IF k = 1 THEN "system" ELSE IF k % 2 = 0 THEN "user" ELSE "assistant"

\* C17: at every model call the conversation has 2 + 2 * retries messages: the
\* system message, the user message, then assistant and user in turn, the last a
\* user message.  When the budget is exhausted it has 2 + 2 * max_retries, and the
\* last two, the feedback for the final attempt, were sent to no model call.
ConversationShape ==
    /\ pc # "done" => Len(messages) = 2 + 2 * retries
    /\ \A k \in DOMAIN messages : messages[k].role = RoleAt(k)
    /\ messages[Len(messages)].role = "user"
    /\ pc = "parse" => sent = Some(messages)
    /\ sent # None
           => /\ Len(sent[1]) = 2 * model_calls
              /\ Len(sent[1]) <= 2 * max_retries
              /\ IsPrefix(sent[1], messages)
              /\ sent[1][Len(sent[1])].role = "user"
    /\ (pc = "done" /\ ~HasSuccessMarker)
           => /\ Len(messages) = 2 + 2 * max_retries
              /\ sent = Some(SubSeq(messages, 1, Len(messages) - 2))

\* The budget is exhausted: eight messages, the last model call was given six of
\* them, and the two after those are the final attempt's response and feedback.
ConversationShape_Witness ==
    /\ pc = "done"
    /\ ~HasSuccessMarker
    /\ Len(messages) = 8
    /\ Len(sent[1]) = 6
    /\ messages[7] = Message("assistant", response)
    /\ messages[8].role = "user"

\* The program bound from the latest response.
BoundFromResponse ==
    Bind(task_lean_code, parse_code_proof(response)[1], parse_code_proof(response)[2])

\* Between a model call and the verifier call of its iteration.
CallOrder ==
    /\ pc \in {"parse", "bind", "verify"} => model_calls = verifier_calls + 1
    /\ pc \in {"loop", "classify", "return", "done"} => model_calls = verifier_calls
    /\ (pc \in {"loop", "classify", "return", "done"} /\ verifier_calls > 0)
           => verified = Some(BoundFromResponse)
    /\ pc = "done" => (model_calls = verifier_calls /\ model_calls >= 1)

\* A step calls the model only when every earlier response has been verified, and
\* the verifier only for the response of the model call before it.
CallStep ==
    /\ model_calls' # model_calls
           => /\ model_calls = verifier_calls
              /\ model_calls' = model_calls + 1
              /\ verifier_calls' = verifier_calls
    /\ verifier_calls' # verifier_calls
           => /\ model_calls = verifier_calls + 1
              /\ verifier_calls' = verifier_calls + 1
              /\ model_calls' = model_calls
              /\ verified' = Some(BoundFromResponse)

\* C18: model calls and verifier calls alternate, the model first.  Every verifier
\* call follows the model call of its iteration and is given the program bound from
\* that iteration's response; every model call is followed by one verifier call
\* before the next model call or the return; at the return the two counts are
\* equal and at least 1.
CallsAlternate == [](CallOrder) /\ [][CallStep]_vars

\* Two iterations: the first response was a stub and got feedback, the second was
\* verified as bound and accepted.
CallsAlternate_Witness ==
    /\ pc = "done"
    /\ model_calls = 2
    /\ verifier_calls = 2
    /\ HasSuccessMarker
    /\ messages[3].content = RESPONSE_SORRY_PROOF
    /\ response = RESPONSE_GOOD
    /\ verified = Some(TEMPLATE_HEAD \o <<"x", "+", "1">> \o TEMPLATE_MIDDLE \o <<"r", "f", "l">>)

=============================================================================
